---- MODULE Spec2Model ----
(***************************************************************************)
(* A model of the weewx WindFinder uploader (bin/user/windfinder.py):      *)
(* the WindFinder service (constructor, new_archive_record), and the       *)
(* WindFinderThread overrides get_record, check_response and format_url,   *)
(* run by the RESTThread loop of weewx.restx that they plug into.          *)
(*                                                                         *)
(* Text is modelled as a sequence of one-character strings, so that        *)
(* find(), startswith() and "contains as a substring" are computed and not *)
(* assumed.  Numbers are integers in thousandths of the unit.              *)
(***************************************************************************)
EXTENDS Integers, Sequences, FiniteSets, TLC

VARIABLES
    \* ---- the check_response development (SpecResponse) ----
    response,       \* the bytes the server sent, as a sequence of characters
    nfrags,         \* how many fragments the server has written
    checked,        \* "no" | "ok" | "failed": the outcome of check_response
    failmsg,        \* the text of the FailedPost raised by check_response
    password,       \* the configured password (characters)
    \* ---- the format_url development (SpecFormat) ----
    in_record,      \* the record handed to format_url
    station_id,     \* the configured station identifier (characters)
    debug,          \* weewx.debug
    fstate,         \* "ready" | "returned" | "raised": format_url's outcome
    url,            \* the URL format_url returned
    logged,         \* what format_url wrote to the debug log
    \* ---- the service and its worker thread (Spec) ----
    site,           \* the [StdRESTful][[WindFinder]] options of the configuration
    service,        \* what WindFinder.__init__ created: queue, thread, binding
    thread,         \* the WindFinderThread's settings (after its __init__)
    archive_queue,  \* self.archive_queue: the records put and not yet taken
    now,            \* the time, in seconds
    pc,             \* where the worker thread is
    job,            \* the record the worker holds and what it did with it so far
    last,           \* the job the worker finished last
    lastpost        \* the time stamp of the last record the worker went on to post

respvars == <<response, nfrags, checked, failmsg>>
fmtvars  == <<in_record, station_id, debug, fstate, url, logged>>
svcvars  == <<site, service, thread, archive_queue, now, pc, job, last, lastpost>>
vars     == <<respvars, fmtvars, svcvars, password>>

-----------------------------------------------------------------------------
(* Bounds *)
MaxFrags == 5       \* fragments the server writes into one response
MaxEvents == 3      \* archive records the host produces

-----------------------------------------------------------------------------
(* Text helpers: Python's str.find(p) >= 0, str.startswith(p), ''.join *)

Contains(s, p) ==
    \E i \in 1..(Len(s) - Len(p) + 1) : SubSeq(s, i, i + Len(p) - 1) = p

StartsWith(s, p) ==
    Len(s) >= Len(p) /\ SubSeq(s, 1, Len(p)) = p

NL == "\n"

\* The first place at which p starts in s, 0 when there is none.
IndexOf(s, p) ==
    IF Contains(s, p)
    THEN CHOOSE i \in 1..(Len(s) - Len(p) + 1) :
            /\ SubSeq(s, i, i + Len(p) - 1) = p
            /\ \A k \in 1..(i - 1) : SubSeq(s, k, k + Len(p) - 1) # p
    ELSE 0

\* Iterating an HTTP response yields its lines, each keeping its line end.
RECURSIVE SplitLines(_, _)
SplitLines(s, cur) ==
    IF s = <<>> THEN (IF cur = <<>> THEN <<>> ELSE <<cur>>)
    ELSE IF Head(s) = NL THEN <<Append(cur, NL)>> \o SplitLines(Tail(s), <<>>)
    ELSE SplitLines(Tail(s), Append(cur, Head(s)))

BodyOpen  == <<"<", "b", "o", "d", "y">>
BodyClose == <<"<", "/", "b", "o", "d", "y", ">">>
OKToken   == <<"O", "K">>
ServerResponsePrefix ==
    <<"S","e","r","v","e","r"," ","r","e","s","p","o","n","s","e",":"," ">>

\* The for loop of check_response: the text of the lines between a line that
\* holds '<body' and a line that holds '</body>', the marker lines left out.
RECURSIVE ScanLines(_, _, _)
ScanLines(lines, reading, acc) ==
    IF lines = <<>> THEN acc
    ELSE LET line == Head(lines) IN
         IF Contains(line, BodyOpen) THEN ScanLines(Tail(lines), TRUE, acc)
         ELSE IF Contains(line, BodyClose) THEN ScanLines(Tail(lines), FALSE, acc)
         ELSE IF reading THEN ScanLines(Tail(lines), reading, acc \o line)
         ELSE ScanLines(Tail(lines), reading, acc)

\* msg.startswith('OK')
AcceptsMsg(msg) == StartsWith(msg, OKToken)

\* A check_response that never raises (what RESTThread's own does).
check_response_accept_all(resp) == [ok |-> TRUE, msg |-> <<>>]

\* WindFinderThread.check_response: returns normally or raises FailedPost.
check_response(resp) ==
    LET msg == ScanLines(SplitLines(resp, <<>>), FALSE, <<>>) IN
    IF ~AcceptsMsg(msg)
    THEN [ok |-> FALSE, msg |-> ServerResponsePrefix \o msg]
    ELSE [ok |-> TRUE, msg |-> <<>>]

-----------------------------------------------------------------------------
(* The server's side of one response, written fragment by fragment *)

Passwords == { <<"s", "3">>, <<"a", "&", "b">> }

Fragments ==
    { <<"<","h","t","m","l",">">>,
      <<"<","b","o","d","y",">">>,
      <<"<","/","b","o","d","y",">">>,
      <<"<","/","h","t","m","l",">">>,
      <<"O","K">>,
      <<"F","A","I","L">>,
      <<" ">>,
      <<NL>> }

RespStart ==
    /\ response = <<>>
    /\ nfrags = 0
    /\ checked = "no"
    /\ failmsg = <<>>

\* The server writes one more piece of its answer; it may echo the password.
ServerWrite ==
    /\ checked = "no"
    /\ nfrags < MaxFrags
    /\ \E f \in Fragments \cup {password} : response' = response \o f
    /\ nfrags' = nfrags + 1
    /\ UNCHANGED <<checked, failmsg, password, fmtvars, svcvars>>

\* The worker hands the complete response to check_response.
CheckResponse ==
    /\ checked = "no"
    /\ LET r == check_response(response) IN
       /\ checked' = (IF r.ok THEN "ok" ELSE "failed")
       /\ failmsg' = r.msg
    /\ UNCHANGED <<response, nfrags, password, fmtvars, svcvars>>

-----------------------------------------------------------------------------
(* Records: a field is absent, present and None, or present with a number   *)
(* (an integer count of thousandths of its unit).                           *)

Absent   == [p |-> "absent", v |-> 0]
Null     == [p |-> "null", v |-> 0]
Val(n)   == [p |-> "val", v |-> n]

\* rkey in record and record[rkey] is not None
HasValue(record, rkey) == record[rkey].p = "val"

ObsFields == {"outTemp", "windDir", "windSpeed", "windGust", "barometer", "rainRate"}
Fields    == ObsFields \cup {"dateTime", "usUnits"}

\* weewx's unit systems
US       == 1
METRIC   == 16
METRICWX == 17

\* x / den, rounded to the nearest integer (half away from zero)
RoundDiv(x, den) ==
    IF x >= 0 THEN (2 * x + den) \div (2 * den)
    ELSE -((2 * (-x) + den) \div (2 * den))

\* weewx.units.convert((v, 'meter_per_second', 'group_speed'), 'knot')[0]
_mps_to_knot(v) == RoundDiv(v * 19438, 10000)

\* One observation from the unit system `us` to METRICWX.
ConvertStd(us, f, v) ==
    IF us = US THEN
        CASE f = "outTemp"   -> RoundDiv((v - 32000) * 5, 9)     \* degree_F -> degree_C
          [] f = "windSpeed" -> RoundDiv(v * 4470, 10000)      \* mph -> m/s
          [] f = "windGust"  -> RoundDiv(v * 4470, 10000)
          [] f = "barometer" -> RoundDiv(v * 3386, 100)      \* inHg -> mbar
          [] f = "rainRate"  -> RoundDiv(v * 254, 10)            \* in/h -> mm/h
          [] OTHER           -> v
    ELSE IF us = METRIC THEN
        CASE f = "windSpeed" -> RoundDiv(v * 10, 36)             \* km/h -> m/s
          [] f = "windGust"  -> RoundDiv(v * 10, 36)
          [] f = "rainRate"  -> v * 10                           \* cm/h -> mm/h
          [] OTHER           -> v
    ELSE v

\* Whether weewx.units.to_METRICWX can convert the record: its unit system is
\* one weewx knows.
UnitsKnown(rec) == rec["usUnits"].p = "val" /\ rec["usUnits"].v \in {US, METRIC, METRICWX}

\* weewx.units.to_METRICWX: every observation converted, None kept None, no
\* key added or removed.
to_METRICWX(rec) ==
    [f \in Fields |->
        IF f = "usUnits" THEN Val(METRICWX)
        ELSE IF f \in ObsFields /\ rec[f].p = "val"
             THEN Val(ConvertStd(rec["usUnits"].v, f, rec[f].v))
             ELSE rec[f]]

-----------------------------------------------------------------------------
(* Formatting: '%.Nf' % x, strftime, urlencode, re.sub *)

DigitChars == <<"0", "1", "2", "3", "4", "5", "6", "7", "8", "9">>

RECURSIVE Pow10(_)
Pow10(n) == IF n = 0 THEN 1 ELSE 10 * Pow10(n - 1)

\* The decimal digits of n >= 0, at least `width` of them (zero padded).
RECURSIVE Digits(_, _)
Digits(n, width) ==
    IF n < 10 /\ width <= 1 THEN <<DigitChars[n + 1]>>
    ELSE Append(Digits(n \div 10, width - 1), DigitChars[(n % 10) + 1])

\* '%.<prec>f' % x for x given in thousandths
FormatFloat(prec, milli) ==
    LET n    == RoundDiv(IF milli >= 0 THEN milli ELSE -milli, Pow10(3 - prec))
        sign == IF milli < 0 THEN <<"-">> ELSE <<>>
        int  == Digits(n \div Pow10(prec), 1)
    IN  IF prec = 0 THEN sign \o int
        ELSE sign \o int \o <<".">> \o Digits(n % Pow10(prec), prec)

\* time.localtime and strftime("%d.%m.%Y"), strftime("%H:%M"), for the time
\* stamps of January 1970 in a zone without offset.
FormatDate(ts) ==
    Digits(1 + (ts \div 86400), 2) \o <<".", "0", "1", ".", "1", "9", "7", "0">>
FormatTime(ts) ==
    Digits((ts % 86400) \div 3600, 2) \o <<":">> \o Digits((ts % 3600) \div 60, 2)

\* urllib's quote_plus on one character: letters, digits and _.-~ are kept.
QuoteChar(c) ==
    CASE c = " " -> <<"+">>
      [] c = "&" -> <<"%", "2", "6">>
      [] c = ":" -> <<"%", "3", "A">>
      [] c = "=" -> <<"%", "3", "D">>
      [] c = "?" -> <<"%", "3", "F">>
      [] c = "/" -> <<"%", "2", "F">>
      [] OTHER   -> <<c>>

RECURSIVE QuotePlus(_)
QuotePlus(s) == IF s = <<>> THEN <<>> ELSE QuoteChar(Head(s)) \o QuotePlus(Tail(s))

\* urlencode(values): key=value pairs in the dict's order, joined by '&'.
RECURSIVE urlencode(_)
urlencode(values) ==
    IF values = <<>> THEN <<>>
    ELSE LET kv == Head(values)
             one == QuotePlus(kv[1]) \o <<"=">> \o QuotePlus(kv[2])
         IN  IF Len(values) = 1 THEN one
             ELSE one \o <<"&">> \o urlencode(Tail(values))

PasswordEq == <<"p","a","s","s","w","o","r","d","=">>
XXX        == <<"X", "X", "X">>

\* re.sub(r"password=[^\&]*", "password=XXX", s): every 'password=' with the
\* characters after it up to the next '&' (or the end) is replaced.
RECURSIVE Redact(_)
Redact(s) ==
    IF ~Contains(s, PasswordEq) THEN s
    ELSE LET i    == IndexOf(s, PasswordEq)
             rest == SubSeq(s, i + Len(PasswordEq), Len(s))
             j    == IF Contains(rest, <<"&">>) THEN IndexOf(rest, <<"&">>)
                     ELSE Len(rest) + 1
         IN  SubSeq(s, 1, i - 1) \o PasswordEq \o XXX
             \o Redact(SubSeq(rest, j, Len(rest)))

-----------------------------------------------------------------------------
(* WindFinderThread.format_url *)

_SERVER_URL ==
    <<"h","t","t","p",":","/","/","w","w","w",".","w","i","n","d","f","i","n","d","e","r",
      ".","c","o","m","/","w","i","n","d","-","c","g","i","/","h","t","t","p","l","o","a","d",
      ".","p","l">>

K_sender_id == <<"s","e","n","d","e","r","_","i","d">>
K_password  == <<"p","a","s","s","w","o","r","d">>
K_date      == <<"d","a","t","e">>
K_time      == <<"t","i","m","e">>
K_airtemp   == <<"a","i","r","t","e","m","p">>
K_winddir   == <<"w","i","n","d","d","i","r">>
K_windspeed == <<"w","i","n","d","s","p","e","e","d">>
K_gust      == <<"g","u","s","t">>
K_pressure  == <<"p","r","e","s","s","u","r","e">>
K_rain      == <<"r","a","i","n">>

\* _DATA_MAP, in the order the dict lists it: wire key, record field, precision
_DATA_MAP ==
    << [key |-> K_airtemp,   rkey |-> "outTemp",   prec |-> 1],
       [key |-> K_winddir,   rkey |-> "windDir",   prec |-> 0],
       [key |-> K_windspeed, rkey |-> "windSpeed", prec |-> 1],
       [key |-> K_gust,      rkey |-> "windGust",  prec |-> 1],
       [key |-> K_pressure,  rkey |-> "barometer", prec |-> 3],
       [key |-> K_rain,      rkey |-> "rainRate",  prec |-> 2] >>

\* The knots step: windSpeed and windGust, when present and not None.
ToKnots(record) ==
    [f \in Fields |->
        IF f \in {"windSpeed", "windGust"} /\ HasValue(record, f)
        THEN Val(_mps_to_knot(record[f].v))
        ELSE record[f]]

\* The test without its "is not None" half: None goes out as a number.
FieldIncluded_key_only(record, rkey) == record[rkey].p # "absent"

\* The test of the loop over _DATA_MAP: is this entry put into values?
FieldIncluded(record, rkey) == HasValue(record, rkey)

\* The loop over _DATA_MAP: the pairs it adds to values, in order.
RECURSIVE MapValues(_, _)
MapValues(record, map) ==
    IF map = <<>> THEN <<>>
    ELSE LET e == Head(map) IN
         (IF FieldIncluded(record, e.rkey)
          THEN << <<e.key, FormatFloat(e.prec, record[e.rkey].v)>> >>
          ELSE <<>>) \o MapValues(record, Tail(map))

\* The values dict of format_url for a converted record.
UrlValues(record, sid, pw) ==
    << <<K_sender_id, sid>>,
       <<K_password, pw>>,
       <<K_date, FormatDate(record["dateTime"].v)>>,
       <<K_time, FormatTime(record["dateTime"].v)>> >> \o MapValues(record, _DATA_MAP)

\* Whether the unit conversions of format_url raise for this record.
ConversionRaises(in_rec) == ~UnitsKnown(in_rec)

\* format_url: the URL it returns and the debug line it logs, or raised when
\* a conversion raised (nothing in format_url catches it).
format_url(in_rec, sid, pw, server_url, dbg) ==
    IF ConversionRaises(in_rec)
    THEN [raised |-> TRUE, url |-> <<>>, logged |-> <<>>]
    ELSE LET record == ToKnots(to_METRICWX(in_rec))
             u      == server_url \o <<"?">> \o urlencode(UrlValues(record, sid, pw))
         IN  [raised |-> FALSE,
              url    |-> u,
              logged |-> IF dbg >= 2 THEN <<"u","r","l",":"," ">> \o Redact(u) ELSE <<>>]

-----------------------------------------------------------------------------
(* format_url applied to the records a host can hand over *)

StationIds == { <<"w", "f", "1">> }

FieldValues(f) ==
    CASE f = "outTemp"   -> {Absent, Null, Val(20000)}
      [] f = "windDir"   -> {Absent, Null, Val(0), Val(180000)}
      [] f = "windSpeed" -> {Absent, Null, Val(5000)}
      [] f = "windGust"  -> {Absent, Null, Val(7500)}
      [] f = "barometer" -> {Absent, Null, Val(29920)}
      [] f = "rainRate"  -> {Absent, Null, Val(0), Val(1250)}
      [] f = "dateTime"  -> {Val(62040)}
      [] f = "usUnits"   -> {Val(US), Val(METRICWX), Val(99)}

InRecords ==
    { [outTemp |-> a, windDir |-> b, windSpeed |-> c, windGust |-> d,
       barometer |-> e, rainRate |-> g, dateTime |-> t, usUnits |-> u] :
        a \in FieldValues("outTemp"), b \in FieldValues("windDir"),
        c \in FieldValues("windSpeed"), d \in FieldValues("windGust"),
        e \in FieldValues("barometer"), g \in FieldValues("rainRate"),
        t \in FieldValues("dateTime"), u \in FieldValues("usUnits") }

FmtStart ==
    /\ fstate = "ready"
    /\ url = <<>>
    /\ logged = <<>>

\* The worker calls format_url on the record it holds.
FormatUrl ==
    /\ fstate = "ready"
    /\ LET r == format_url(in_record, station_id, password, _SERVER_URL, debug) IN
       /\ fstate' = (IF r.raised THEN "raised" ELSE "returned")
       /\ url' = r.url
       /\ logged' = r.logged
    /\ UNCHANGED <<in_record, station_id, debug, password, respvars, svcvars>>

-----------------------------------------------------------------------------
(* The service: configuration, construction, new_archive_record *)

ArchiveInterval == 300      \* seconds between two archive records of the host

sys_maxsize         == 2147483647
post_interval_dflt  == 300
max_tries_dflt      == 3
retry_wait_dflt     == 5

Opt(cell, dflt) == IF cell.p = "absent" THEN dflt ELSE cell

Sites ==
    [ has_station_id : BOOLEAN,
      has_password   : BOOLEAN,
      max_backlog    : {Absent, Val(1), Val(2)},
      stale          : {Absent, Val(300)},
      max_tries      : {Absent, Val(2)},
      post_interval  : {Absent, Val(600)} ]

\* weewx.restx.get_site_dict(config_dict, 'WindFinder', 'station_id',
\* 'password'): None when a required option is missing.
get_site_dict(cfg) ==
    [none |-> ~(cfg.has_station_id /\ cfg.has_password), dict |-> cfg]

NoThread ==
    [max_backlog |-> 0, stale |-> Null, max_tries |-> 0, retry_wait |-> 0,
     post_interval |-> 0]

\* A constructor that does not hand stale on to RESTThread.
WindFinderThread__init__drops_stale(site_dict) ==
    [max_backlog   |-> Opt(site_dict.max_backlog, Val(sys_maxsize)).v,
     stale         |-> Null,
     max_tries     |-> Opt(site_dict.max_tries, Val(max_tries_dflt)).v,
     retry_wait    |-> retry_wait_dflt,
     post_interval |-> Opt(site_dict.post_interval, Val(post_interval_dflt)).v]

\* WindFinderThread.__init__: the keyword defaults, handed on to RESTThread.
WindFinderThread__init__(site_dict) ==
    [max_backlog   |-> Opt(site_dict.max_backlog, Val(sys_maxsize)).v,
     stale         |-> Opt(site_dict.stale, Null),
     max_tries     |-> Opt(site_dict.max_tries, Val(max_tries_dflt)).v,
     retry_wait    |-> retry_wait_dflt,
     post_interval |-> Opt(site_dict.post_interval, Val(post_interval_dflt)).v]

\* A constructor that creates the queue and binds before it looks at
\* site_dict.
WindFinder__init__binds_first(cfg) ==
    [queue |-> TRUE, started |-> ~get_site_dict(cfg).none, bound |-> TRUE,
     returned |-> TRUE,
     thread |-> IF get_site_dict(cfg).none THEN NoThread
                ELSE [max_backlog   |-> Opt(cfg.max_backlog, Val(sys_maxsize)).v,
                      stale         |-> Opt(cfg.stale, Null),
                      max_tries     |-> Opt(cfg.max_tries, Val(max_tries_dflt)).v,
                      retry_wait    |-> retry_wait_dflt,
                      post_interval |-> Opt(cfg.post_interval, Val(post_interval_dflt)).v]]

\* WindFinder.__init__: returns early, having created nothing, when
\* get_site_dict gave None; else creates the queue, creates and starts the
\* thread, and binds new_archive_record to NEW_ARCHIVE_RECORD.
WindFinder__init__(cfg) ==
    LET site_dict == get_site_dict(cfg) IN
    IF site_dict.none
    THEN [queue |-> FALSE, started |-> FALSE, bound |-> FALSE, returned |-> TRUE,
          thread |-> NoThread]
    ELSE [queue |-> TRUE, started |-> TRUE, bound |-> TRUE, returned |-> TRUE,
          thread |-> WindFinderThread__init__(site_dict.dict)]

\* A queue made with maxsize = max_backlog: put() waits while it is full.
PutBlocks_when_full(q) == Len(q) >= thread.max_backlog

\* queue.Queue() has no maxsize: put() never waits for room.
PutBlocks(q) == FALSE

\* WindFinder.new_archive_record: self.archive_queue.put(event.record)
new_archive_record(q, record) == Append(q, record)

NoRec == [f \in Fields |-> Absent]

\* The archive records of the host: with, without and with a None windSpeed,
\* and one in a unit system weewx does not know.
HostRecord(ts, kind) ==
    [f \in Fields |->
        CASE f = "dateTime"  -> Val(ts)
          [] f = "usUnits"   -> IF kind = "badunits" THEN Val(99) ELSE Val(METRICWX)
          [] f = "windSpeed" -> (CASE kind = "nowind" -> Absent
                                   [] kind = "nullwind" -> Null
                                   [] OTHER -> Val(5000))
          [] f = "outTemp"   -> Val(20000)
          [] OTHER           -> Absent]

RecordKinds == {"wind", "nowind", "nullwind", "badunits"}

-----------------------------------------------------------------------------
(* The worker thread: the RESTThread loop and the WindFinderThread overrides *)

\* RESTThread.get_record: the record, augmented from the database; the
\* observations of the record itself are kept.
super_get_record(record) == record

\* A get_record that tests only for the key, not for None.
get_record_key_only(record) ==
    [aborted |-> record["windSpeed"].p = "absent", rec |-> record]

\* WindFinderThread.get_record: raises AbortedPost unless windSpeed is there
\* and not None.
get_record(record) ==
    LET rec == super_get_record(record) IN
    IF rec["windSpeed"].p = "absent" \/ rec["windSpeed"].p = "null"
    THEN [aborted |-> TRUE, rec |-> rec]
    ELSE [aborted |-> FALSE, rec |-> rec]

\* What the server does with one request: it answers OK, it answers with an
\* error text, or the transport fails.  The answers are whole HTML pages.
Page(text) ==
    <<"<","h","t","m","l",">",NL,"<","b","o","d","y",">",NL>> \o text
    \o <<NL,"<","/","b","o","d","y",">",NL,"<","/","h","t","m","l",">",NL>>

ServerBehaviours == {"accept", "reject", "transport"}

ServerPage(b) ==
    IF b = "accept" THEN Page(<<"O","K">>)
    ELSE Page(<<"F","A","I","L"," ","s","t","a","t","i","o","n">>)

NoJob ==
    [rec |-> NoRec, tries |-> 0, waits |-> 0, slept |-> 0, net |-> 0,
     url_built |-> FALSE, hist |-> <<>>, age |-> 0, outcome |-> "none"]

NewJob(rec) == [NoJob EXCEPT !.rec = rec, !.outcome = "running"]

\* The worker is done with the job it holds and goes back to the queue.
Finish(j, outcome, nextpc) ==
    /\ last' = [j EXCEPT !.outcome = outcome]
    /\ job' = NoJob
    /\ pc' = nextpc

\* run_loop: take the next record; while more than max_backlog records wait
\* behind it, drop it and take the next.
Get ==
    /\ pc = "idle"
    /\ archive_queue # <<>>
    /\ archive_queue' = Tail(archive_queue)
    /\ IF Len(archive_queue') <= thread.max_backlog
       THEN /\ job' = NewJob(Head(archive_queue))
            /\ pc' = "check"
            /\ UNCHANGED last
       ELSE Finish(NewJob(Head(archive_queue)), "backlog", "idle")
    /\ UNCHANGED <<site, service, thread, now, lastpost, password, respvars, fmtvars>>

\* skip_this_post: a record older than stale is dropped, and so is one that
\* follows the last post by less than post_interval.
SkipCheck ==
    /\ pc = "check"
    /\ LET ts  == job.rec["dateTime"].v
           j   == [job EXCEPT !.age = now - ts]
       IN  IF thread.stale.p = "val" /\ now - ts > thread.stale.v
           THEN Finish(j, "stale", "idle") /\ UNCHANGED lastpost
           ELSE IF ts - lastpost < thread.post_interval
           THEN Finish(j, "paced", "idle") /\ UNCHANGED lastpost
           ELSE /\ lastpost' = ts
                /\ job' = j
                /\ pc' = "get_record"
                /\ UNCHANGED last
    /\ UNCHANGED <<site, service, thread, archive_queue, now, password, respvars, fmtvars>>

\* process_record, first step: get_record; AbortedPost ends the job.
GetRecord ==
    /\ pc = "get_record"
    /\ LET r == get_record(job.rec) IN
       IF r.aborted
       THEN Finish(job, "aborted", "idle")
       ELSE /\ job' = [job EXCEPT !.rec = r.rec]
            /\ pc' = "format"
            /\ UNCHANGED last
    /\ UNCHANGED <<site, service, thread, archive_queue, now, lastpost, password,
                   respvars, fmtvars>>

\* process_record, second step: format_url.  An exception out of it is none
\* the loop expects: the loop logs it, and either goes on or ends the thread.
Format ==
    /\ pc = "format"
    /\ LET r == format_url(job.rec, station_id, password, _SERVER_URL, debug) IN
       IF r.raised
       THEN \E nextpc \in {"idle", "dead"} : Finish(job, "error", nextpc)
       ELSE /\ job' = [job EXCEPT !.url_built = TRUE]
            /\ pc' = "send"
            /\ UNCHANGED last
    /\ UNCHANGED <<site, service, thread, archive_queue, now, lastpost, password,
                   respvars, fmtvars>>

\* post_with_retries, one attempt: the request is sent; a transport failure
\* or a FailedPost of check_response fails the attempt.  After max_tries
\* failed attempts the job is given up.
Send ==
    /\ pc = "send"
    /\ \E b \in ServerBehaviours :
         LET j  == [job EXCEPT !.tries = @ + 1, !.net = @ + 1, !.hist = Append(@, b)]
             ok == b # "transport" /\ check_response(ServerPage(b)).ok
         IN  IF ok THEN Finish(j, "delivered", "idle")
             ELSE IF j.tries < thread.max_tries
             THEN job' = j /\ pc' = "wait" /\ UNCHANGED last
             ELSE Finish(j, "abandoned", "idle")
    /\ UNCHANGED <<site, service, thread, archive_queue, now, lastpost, password,
                   respvars, fmtvars>>

\* post_with_retries, between two attempts: time.sleep(retry_wait)
Wait ==
    /\ pc = "wait"
    /\ job' = [job EXCEPT !.waits = @ + 1, !.slept = @ + thread.retry_wait]
    /\ pc' = "send"
    /\ UNCHANGED <<site, service, thread, archive_queue, now, last, lastpost, password,
                   respvars, fmtvars>>

\* The host's engine produces an archive record and fires NEW_ARCHIVE_RECORD;
\* the handler bound to it, if any, is new_archive_record.
NewArchiveRecord ==
    /\ now < (10 + MaxEvents) * ArchiveInterval
    /\ now' = now + ArchiveInterval
    /\ \E kind \in RecordKinds :
         IF service.bound
         THEN /\ ~PutBlocks(archive_queue)
              /\ archive_queue' = new_archive_record(archive_queue, HostRecord(now', kind))
         ELSE UNCHANGED archive_queue
    /\ UNCHANGED <<site, service, thread, pc, job, last, lastpost, password,
                   respvars, fmtvars>>

Init ==
    /\ site \in Sites
    /\ LET s == WindFinder__init__(site) IN
       /\ service = [queue |-> s.queue, started |-> s.started, bound |-> s.bound,
                     returned |-> s.returned]
       /\ thread = s.thread
       /\ pc = (IF s.started THEN "idle" ELSE "none")
    /\ archive_queue = <<>>
    /\ now = 10 * ArchiveInterval
    /\ job = NoJob
    /\ last = NoJob
    /\ lastpost = 0
    /\ password = <<"s", "3">>
    /\ station_id \in StationIds
    /\ in_record = NoRec
    /\ debug = 0
    /\ FmtStart
    /\ RespStart

Next ==
    \/ NewArchiveRecord
    \/ Get
    \/ SkipCheck
    \/ GetRecord
    \/ Format
    \/ Send
    \/ Wait

Spec == Init /\ [][Next]_vars

-----------------------------------------------------------------------------
(* The format_url and check_response developments *)

FmtInit ==
    /\ in_record \in InRecords
    /\ station_id \in StationIds
    /\ password \in Passwords
    /\ debug \in {0, 2}
    /\ FmtStart
    /\ RespStart
    /\ site = CHOOSE c \in Sites : ~c.has_station_id /\ ~c.has_password
    /\ service = [queue |-> FALSE, started |-> FALSE, bound |-> FALSE, returned |-> FALSE]
    /\ thread = NoThread
    /\ archive_queue = <<>>
    /\ now = 0
    /\ pc = "none"
    /\ job = NoJob
    /\ last = NoJob
    /\ lastpost = 0

SpecFormat == FmtInit /\ [][FormatUrl]_vars

RespInit ==
    /\ RespStart
    /\ password \in Passwords
    /\ in_record = NoRec
    /\ station_id \in StationIds
    /\ debug = 0
    /\ FmtStart
    /\ site = CHOOSE c \in Sites : ~c.has_station_id /\ ~c.has_password
    /\ service = [queue |-> FALSE, started |-> FALSE, bound |-> FALSE, returned |-> FALSE]
    /\ thread = NoThread
    /\ archive_queue = <<>>
    /\ now = 0
    /\ pc = "none"
    /\ job = NoJob
    /\ last = NoJob
    /\ lastpost = 0

RespNext == ServerWrite \/ CheckResponse

SpecResponse == RespInit /\ [][RespNext]_vars

-----------------------------------------------------------------------------
(* Properties *)

IsSpace(c) == c = " " \/ c = NL

RECURSIVE LStrip(_)
LStrip(s) == IF s # <<>> /\ IsSpace(Head(s)) THEN LStrip(Tail(s)) ELSE s

RECURSIVE RStrip(_)
RStrip(s) ==
    IF s # <<>> /\ IsSpace(s[Len(s)]) THEN RStrip(SubSeq(s, 1, Len(s) - 1)) ELSE s

Trim(s) == RStrip(LStrip(s))

\* The text of a response that lies between its body markers: after the '>'
\* that closes the first '<body' tag, up to the next '</body>'.
AfterBodyOpen(resp) ==
    LET i    == IndexOf(resp, BodyOpen)
        rest == SubSeq(resp, i + Len(BodyOpen), Len(resp))
        g    == IndexOf(rest, <<">">>)
    IN  SubSeq(rest, g + 1, Len(rest))

HasBodyRegion(resp) ==
    /\ Contains(resp, BodyOpen)
    /\ LET i == IndexOf(resp, BodyOpen)
       IN  Contains(SubSeq(resp, i + Len(BodyOpen), Len(resp)), <<">">>)
    /\ Contains(AfterBodyOpen(resp), BodyClose)

BodyRegion(resp) ==
    LET a == AfterBodyOpen(resp) IN SubSeq(a, 1, IndexOf(a, BodyClose) - 1)

\* C1: whatever the host and the worker do, the archive queue never holds
\* more than max_backlog records.
C1_BacklogBound ==
    service.queue => Len(archive_queue) <= thread.max_backlog

\* C3: check_response reports success exactly when the trimmed text between
\* the body markers of the response begins with OK; otherwise it fails with a
\* message that carries that text; without body markers it fails.
C3_ResponseValidation ==
    checked # "no" =>
        /\ HasBodyRegion(response) =>
               ((checked = "ok") <=> StartsWith(Trim(BodyRegion(response)), OKToken))
        /\ (checked = "failed" /\ HasBodyRegion(response)) =>
               Contains(failmsg, Trim(BodyRegion(response)))
        /\ ~Contains(response, BodyOpen) => checked = "failed"

\* C7: neither the message of a failed post nor the logged URL holds the
\* configured password.
C7_NoPasswordInLogs ==
    /\ checked = "failed" => ~Contains(failmsg, password)
    /\ ~Contains(logged, password)

\* The wire form of one query pair, as it stands in a URL after the first.
QueryPair(key, value) == <<"&">> \o key \o <<"=">> \o QuotePlus(value)

\* C6: the URL format_url returns has a wire key of _DATA_MAP exactly when the
\* key's record field is present and not None, and always has sender_id,
\* password, date and time.
C6_PayloadFieldPresence ==
    fstate = "returned" =>
        /\ \A i \in 1..Len(_DATA_MAP) :
              Contains(url, <<"&">> \o _DATA_MAP[i].key \o <<"=">>)
                  <=> in_record[_DATA_MAP[i].rkey].p = "val"
        /\ StartsWith(url, _SERVER_URL \o <<"?">> \o K_sender_id \o <<"=">>
                                        \o QuotePlus(station_id) \o <<"&">>)
        /\ Contains(url, QueryPair(K_password, password))
        /\ Contains(url, QueryPair(K_date, FormatDate(in_record["dateTime"].v)))
        /\ Contains(url, QueryPair(K_time, FormatTime(in_record["dateTime"].v)))

C6_Witness ==
    /\ fstate = "returned"
    /\ in_record["outTemp"] = Null
    /\ in_record["windGust"] = Absent
    /\ in_record["windDir"] = Val(0)
    /\ in_record["windSpeed"] = Val(5000)
    /\ in_record["usUnits"] = Val(METRICWX)
    /\ Contains(url, QueryPair(K_windspeed, <<"9", ".", "7">>))
    /\ Contains(url, QueryPair(K_winddir, <<"0">>))

\* C10: when a unit conversion fails for a record, format_url still returns a
\* URL, which holds every other field that is present and not None.
C10_UnknownUnitDegrades ==
    (fstate # "ready" /\ ConversionRaises(in_record)) =>
        /\ fstate = "returned"
        /\ \A i \in 1..Len(_DATA_MAP) :
              (in_record[_DATA_MAP[i].rkey].p = "val"
                 /\ _DATA_MAP[i].rkey \notin {"windSpeed", "windGust"})
                  => Contains(url, <<"&">> \o _DATA_MAP[i].key \o <<"=">>)

InvalidWind(rec) == rec["windSpeed"].p \in {"absent", "null"}

\* C2: a record whose windSpeed is absent or None never gets a URL built nor
\* a network attempt, uses none of the tries and is not retried; get_record
\* ends it as aborted, and the worker goes back to the queue for the next job.
C2_InvalidRecordShortCircuit ==
    /\ [](/\ (job.outcome = "running" /\ InvalidWind(job.rec)) =>
                (/\ pc \in {"check", "get_record"}
                 /\ job.net = 0 /\ job.tries = 0 /\ job.waits = 0 /\ ~job.url_built)
          /\ (last.outcome # "none" /\ InvalidWind(last.rec)) =>
                (/\ last.net = 0 /\ last.tries = 0 /\ last.waits = 0 /\ ~last.url_built
                 /\ last.outcome \in {"aborted", "stale", "paced", "backlog"}))
    /\ [][(pc = "get_record" /\ pc' # "get_record" /\ InvalidWind(job.rec)) =>
             (pc' = "idle" /\ last' = [job EXCEPT !.outcome = "aborted"])]_vars

C2_Witness ==
    /\ last.outcome = "aborted"
    /\ last.rec["windSpeed"] = Null
    /\ pc = "send"
    /\ job.rec["dateTime"].v > last.rec["dateTime"].v

\* C4: a job that was sent ends delivered exactly when its last attempt was
\* accepted, and abandoned exactly when max_tries attempts all failed; every
\* attempt before the last failed; there is exactly one wait of retry_wait
\* seconds between two attempts; and no attempt follows an accepted one.
C4_RetryProtocol ==
    /\ last.outcome \in {"delivered", "abandoned"} =>
          LET h == last.hist
              n == Len(h)
          IN  /\ n >= 1 /\ n <= thread.max_tries
              /\ last.tries = n /\ last.net = n
              /\ \A i \in 1..(n - 1) : h[i] # "accept"
              /\ (last.outcome = "delivered") <=> (h[n] = "accept")
              /\ (last.outcome = "abandoned") <=> (n = thread.max_tries /\ h[n] # "accept")
              /\ last.waits = n - 1
              /\ last.slept = (n - 1) * retry_wait_dflt
    /\ job.outcome = "running" =>
          /\ \A i \in 1..Len(job.hist) : job.hist[i] # "accept"
          /\ job.tries = Len(job.hist) /\ job.net = Len(job.hist)
          /\ job.tries < thread.max_tries
          /\ job.waits = (IF pc = "wait" THEN job.tries - 1
                         ELSE IF pc = "send" /\ job.tries > 0 THEN job.tries ELSE 0)
    /\ thread.max_tries = Opt(site.max_tries, Val(max_tries_dflt)).v \/ ~service.started

C4_Witness ==
    /\ last.outcome = "delivered"
    /\ thread.max_tries = max_tries_dflt
    /\ last.hist = <<"reject", "transport", "accept">>
    /\ last.waits = 2
    /\ last.slept = 10

\* C5: without station_id or password the constructor returns having made no
\* queue, started no thread and bound no handler, and no record is ever
\* queued or handled.
C5_MissingCredentials ==
    ~(site.has_station_id /\ site.has_password) =>
        /\ service = [queue |-> FALSE, started |-> FALSE, bound |-> FALSE,
                      returned |-> TRUE]
        /\ archive_queue = <<>>
        /\ pc = "none"
        /\ job = NoJob
        /\ last = NoJob

C5_Witness ==
    /\ site.has_station_id /\ ~site.has_password
    /\ service.returned
    /\ now >= 12 * ArchiveInterval

\* C8: with stale configured, a job that is more than stale seconds old when
\* the worker looks at it is dropped with no network attempt and the worker
\* goes back to the queue; with stale not configured no job is dropped for
\* its age.
C8_StalenessDrop ==
    /\ [](/\ (site.stale.p = "val" /\ last.outcome # "none" /\ last.age > site.stale.v) =>
                (last.outcome = "stale" /\ last.net = 0 /\ last.tries = 0
                 /\ ~last.url_built)
          /\ (site.stale.p = "val" /\ pc \in {"get_record", "format", "send", "wait"}) =>
                job.age <= site.stale.v
          /\ (site.stale.p = "absent") => last.outcome # "stale")
    /\ [][(/\ pc = "check" /\ pc' # "check" /\ site.stale.p = "val"
            /\ now - job.rec["dateTime"].v > site.stale.v) =>
             (pc' = "idle" /\ last'.outcome = "stale" /\ last'.net = 0)]_vars

C8_Witness ==
    /\ last.outcome = "stale"
    /\ last.age > 300
    /\ pc = "send"
    /\ job.age = 300

\* C9: as long as the host has records to hand over, new_archive_record can
\* run to its end whatever the queue holds and wherever the worker is, and it
\* puts the record at the end of the queue, touching nothing of the worker.
C9_ProducerIsolation ==
    /\ [](( service.bound /\ now < (10 + MaxEvents) * ArchiveInterval) =>
             ENABLED NewArchiveRecord)
    /\ [][(service.bound /\ now' # now) =>
             (/\ Len(archive_queue') = Len(archive_queue) + 1
              /\ SubSeq(archive_queue', 1, Len(archive_queue)) = archive_queue
              /\ archive_queue'[Len(archive_queue')]["dateTime"].v = now'
              /\ UNCHANGED <<pc, job, last>>)]_vars

C9_Witness ==
    /\ service.bound
    /\ pc = "wait"
    /\ last.outcome = "abandoned"
    /\ archive_queue # <<>>
    /\ archive_queue[Len(archive_queue)]["dateTime"].v = now
    /\ Len(archive_queue) >= thread.max_backlog

====
